---- MODULE Spec2Model ----
(***************************************************************************)
(* Model of the task routes of task-tracker-backend (src/routes/tasks.js). *)
(* `server` is the process around them (src/server.js): its connection to *)
(* the store and whether it listens.                                       *)
(*                                                                         *)
(* The store is the MongoDB "tasks" collection, a set of documents with    *)
(* unique _id.  Every handler is an async function: each `await` of a      *)
(* store call is one atomic step, and steps of different requests          *)
(* interleave freely between awaits.  Update, Delete and Stats make two    *)
(* store calls each and therefore take two steps; Create and List make     *)
(* one.  `req` is the bag of requests that are between their two store     *)
(* calls, `res` the response most recently written by a handler.           *)
(*                                                                         *)
(* Strings that are searched (title, description, search) are sequences of *)
(* one-character strings; all other strings are TLA+ strings.              *)
(***************************************************************************)
EXTENDS Integers, Sequences, FiniteSets, Bags, TLC

VARIABLES store, nextId, creator, now, req, res, server

vars == <<store, nextId, creator, now, req, res, server>>

-----------------------------------------------------------------------------
(* Bounds *)

\* number of ObjectIds the store hands out (Create is disabled afterwards)
MaxTasks == 2
\* number of requests that can be between their two store calls at once
MaxReqs == 2
\* last value of the wall clock
MaxClock == 1
\* longest search string
MaxSearchLen == 2

-----------------------------------------------------------------------------
(* Values *)

Users == {"alice", "bob"}
NoUser == "nobody"

TaskIds == 1..MaxTasks
\* a request parameter that is not a well-formed ObjectId
BadId == 0
Ids == TaskIds \cup {BadId}

Priorities == {"High", "Medium", "Low"}
Statuses == {"Pending", "In Progress", "Completed"}

\* a document without dueDate
NoDate == -1
\* a document without description (a $regex never matches a missing field;
\* the patterns modelled below never match the empty text either)
NoText == <<>>

Has(body, f) == f \in DOMAIN body
Get(body, f, default) == IF Has(body, f) THEN body[f] ELSE default

-----------------------------------------------------------------------------
(* The Task schema (models/Task.js) as the data model describes it *)

\* new Task({...}).validate(): title is required, priority and status are
\* enumerations
DocValid(d) ==
    /\ d.title # NoText
    /\ d.priority \in Priorities
    /\ d.status \in Statuses

\* runValidators: true validates the paths named in the update
UpdateValid(updates) ==
    /\ Has(updates, "title") => updates.title # NoText
    /\ Has(updates, "priority") => updates.priority \in Priorities
    /\ Has(updates, "status") => updates.status \in Statuses

\* the paths an update may set: the schema protects none of its paths
\* (user included); only _id is immutable in the store
Settable(f) == f # "id"

-----------------------------------------------------------------------------
(* Store calls *)

\* a result that is a document or null: <<doc>> or <<>>
Null == <<>>
Some(d) == <<d>>

\* Task.findById(id), the lookup inside findByIdAndUpdate/findByIdAndDelete
FindById(s, id) ==
    LET m == {d \in s : d.id = id}
    IN  IF m = {} THEN Null ELSE Some(CHOOSE d \in m : TRUE)

\* a lookup that forgets the owner
FindOneAnyOwner(s, id, u) == FindById(s, id)

\* Task.findOne({ _id: id, user: u })
FindOne(s, id, u) ==
    LET m == {d \in s : d.id = id /\ d.user = u}
    IN  IF m = {} THEN Null ELSE Some(CHOOSE d \in m : TRUE)

\* the update document is req.body as it came: every path it names that an
\* update may set is $set, the paths it does not name are kept
ApplyUpdates(d, updates) ==
    [f \in DOMAIN d |->
        IF Settable(f) /\ Has(updates, f) THEN updates[f] ELSE d[f]]

\* an update of every document of the collection
UpdatedStoreEvery(s, id, updates) == {ApplyUpdates(d, updates) : d \in s}

\* Task.findByIdAndUpdate(id, updates, { new: true }): the collection after
\* the call
UpdatedStore(s, id, updates) ==
    {IF d.id = id THEN ApplyUpdates(d, updates) ELSE d : d \in s}

\* Task.findByIdAndDelete(id): the collection after the call
DeletedStore(s, id) == {d \in s : d.id # id}

\* Task.aggregate([{ $match: { user } }, { $group: { _id: null, ... } }]):
\* $group folds the matched documents into one row and emits no row at all
\* when nothing matched
ZeroRow == [total |-> 0, completed |-> 0, pending |-> 0, inProgress |-> 0,
            highPriority |-> 0]

Cond(b) == IF b THEN 1 ELSE 0

\* a $group that takes every priority for High
AccumulateAnyPriority(row, d) ==
    [total |-> row.total + 1,
     completed |-> row.completed + Cond(d.status = "Completed"),
     pending |-> row.pending + Cond(d.status = "Pending"),
     inProgress |-> row.inProgress + Cond(d.status = "In Progress"),
     highPriority |-> row.highPriority + 1]

Accumulate(row, d) ==
    [total |-> row.total + 1,
     completed |-> row.completed + Cond(d.status = "Completed"),
     pending |-> row.pending + Cond(d.status = "Pending"),
     inProgress |-> row.inProgress + Cond(d.status = "In Progress"),
     highPriority |-> row.highPriority + Cond(d.priority = "High")]

RECURSIVE Group(_)
Group(docs) ==
    IF docs = {} THEN ZeroRow
    ELSE LET d == CHOOSE x \in docs : TRUE
         IN  Accumulate(Group(docs \ {d}), d)

Match(s, u) == {d \in s : d.user = u}

Aggregate(s, u) ==
    IF Match(s, u) = {} THEN <<>> ELSE <<Group(Match(s, u))>>

\* an overdue count that forgets the status
CountOverdueAnyStatus(s, u, t) ==
    Cardinality({d \in s : d.user = u /\ d.dueDate # NoDate /\ d.dueDate < t})

\* Task.countDocuments({ user, dueDate: { $lt: t }, status: { $ne:
\* 'Completed' } }); $lt against a date matches only documents that have a
\* date
CountOverdue(s, u, t) ==
    Cardinality({d \in s : /\ d.user = u
                           /\ d.dueDate # NoDate
                           /\ d.dueDate < t
                           /\ d.status # "Completed"})

\* { $regex: pattern, $options: 'i' } on the patterns modelled: a letter
\* matches itself in either case, "." matches any one character, and "("
\* opens a group that nothing closes, which the store rejects
Lower(c) == IF c = "A" THEN "a" ELSE IF c = "B" THEN "b" ELSE c

RegexValid(pattern) == \A k \in 1..Len(pattern) : pattern[k] # "("

CharMatch(pc, c) == pc = "." \/ Lower(pc) = Lower(c)

RegexTest(pattern, text) ==
    \E i \in 1..(Len(text) - Len(pattern) + 1) :
        \A k \in 1..Len(pattern) : CharMatch(pattern[k], text[i + k - 1])

\* the filter router.get('/') builds: a parameter that is absent or empty is
\* falsy and adds no condition
Truthy(q, f) == Has(q, f) /\ q[f] # (IF f = "search" THEN NoText ELSE "")

\* a filter that drops the priority parameter
QueryMatchNoPriority(d, u, q) ==
    /\ d.user = u
    /\ Truthy(q, "status") => d.status = q.status
    /\ Truthy(q, "search") => \/ RegexTest(q.search, d.title)
                              \/ RegexTest(q.search, d.description)

QueryMatch(d, u, q) ==
    /\ d.user = u
    /\ Truthy(q, "status") => d.status = q.status
    /\ Truthy(q, "priority") => d.priority = q.priority
    /\ Truthy(q, "search") => \/ RegexTest(q.search, d.title)
                              \/ RegexTest(q.search, d.description)

Find(s, u, q) == {d \in s : QueryMatch(d, u, q)}

\* the severity ranks line 71 builds (and never uses)
priorityOrder == [High |-> 1, Medium |-> 2, Low |-> 3]

\* priorities compared by severity
RawOrderBySeverity(p) == priorityOrder[p]

\* the order of the priority strings under the store's string comparison
RawOrder(p) == IF p = "High" THEN 1 ELSE IF p = "Low" THEN 2 ELSE 3

\* every sort key taken ascending
SortKeyAscending(sortBy, d) ==
    IF sortBy \in {"dueDate", "-dueDate"} THEN d.dueDate
    ELSE IF sortBy = "createdAt" THEN d.createdAt
    ELSE IF sortBy = "priority" THEN RawOrder(d.priority)
    ELSE d.id

\* tasks.sort({ field: 1 | -1 }): the key by which the result ascends; a
\* missing dueDate sorts before every date
SortKey(sortBy, d) ==
    IF sortBy = "dueDate" THEN d.dueDate
    ELSE IF sortBy = "-dueDate" THEN 0 - d.dueDate
    ELSE IF sortBy = "createdAt" THEN 0 - d.createdAt
    ELSE IF sortBy = "priority" THEN RawOrder(d.priority)
    ELSE d.id

Orderings(docs) ==
    {f \in [1..Cardinality(docs) -> docs] :
        \A i, j \in 1..Cardinality(docs) : i # j => f[i] # f[j]}

\* tasks.exec(): the matching documents in the requested order; documents
\* with equal keys come in either order, and without a sort the collection
\* is scanned in insertion order
Exec(docs, sortBy) ==
    {f \in Orderings(docs) :
        \A i, j \in 1..Cardinality(docs) :
            i < j => SortKey(sortBy, f[i]) <= SortKey(sortBy, f[j])}

-----------------------------------------------------------------------------
(* Requests and responses *)

NoBody == [f \in {} |-> 0]

\* the requests waiting for their second store call, with the local
\* variables of the handler that are live across the await
UpdateReq(u, id, updates) ==
    [op |-> "update", caller |-> u, id |-> id, updates |-> updates]
DeleteReq(u, id) == [op |-> "delete", caller |-> u, id |-> id]
StatsReq(u, stats) == [op |-> "stats", caller |-> u, stats |-> stats]

InFlight == BagToSet(req)
Await(rq) == req (+) SetToBag({rq})
Resume(rq) == req (-) SetToBag({rq})

\* res.status(status).json({ message, data }) at the given source line of
\* routes/tasks.js
\* `args` is the query of a List request, `count` the count member of a
\* List response
NoCount == -1

Response(line, op, u, id, args, status, message, data) ==
    [line |-> line, op |-> op, caller |-> u, id |-> id, args |-> args,
     status |-> status, message |-> message, data |-> data, count |-> NoCount]

NoResponse == Response(0, "none", NoUser, BadId, NoBody, 0, "", <<>>)

\* res.status(404).json({ success: false, message: 'Task not found' })
NotFound(line, op, u, id) ==
    Response(line, op, u, id, NoBody, 404, "Task not found", <<>>)

\* error.message of the errors the handlers catch
ValidationMsg == "Task validation failed"
CastMsg == "Cast to ObjectId failed"
StoreMsg == "store failure"
RegexMsg == "Regular expression is invalid"

\* new Task({ title, description, priority, dueDate, status,
\*            tags: tags || [], user: req.user._id }), saved with the
\* given _id at the given time
NewTask(u, body, id, t) ==
    [id |-> id,
     title |-> Get(body, "title", NoText),
     description |-> Get(body, "description", NoText),
     priority |-> body.priority,
     status |-> body.status,
     dueDate |-> Get(body, "dueDate", NoDate),
     tags |-> Get(body, "tags", <<>>),
     user |-> u,
     createdAt |-> t]

-----------------------------------------------------------------------------
(* Server *)

\* the process as node starts it: connectDB has not been called, nothing is
\* connected, nothing listens; `uri` tells whether MONGO_URI is defined,
\* `first` follows the promise of the first connectDB call and its `then`
Starting(uri) ==
    [uri |-> uri, pc |-> "boot", first |-> "pending",
     connected |-> FALSE, listening |-> FALSE]

\* the process once it is connected and listens
Running ==
    [uri |-> TRUE, pc |-> "idle", first |-> "started",
     connected |-> TRUE, listening |-> TRUE]

\* the async function connectDB returns: its promise is fulfilled, also when
\* the catch block handled a failure; only the first call's promise has a
\* `then` callback
Returned(s) == IF s.first = "pending" THEN [s EXCEPT !.first = "fulfilled"] ELSE s

\* catch (error) { ...; setTimeout(connectDB, 5000); }
Caught(s) == Returned([s EXCEPT !.pc = "timer"])

\* connectDB up to its await: without MONGO_URI it throws into its own catch
connectDB ==
    server' = IF server.uri THEN [server EXCEPT !.pc = "connecting"]
              ELSE Caught(server)

\* connectDB().then(...): the first call
Boot ==
    /\ server.pc = "boot"
    /\ connectDB
    /\ UNCHANGED <<store, nextId, creator, now, req, res>>

\* the timer of setTimeout(connectDB, 5000) fires
Retry ==
    /\ server.pc = "timer"
    /\ connectDB
    /\ UNCHANGED <<store, nextId, creator, now, req, res>>

\* await mongoose.connect(...) settles: connected, or rejected into the catch
Connect(ok) ==
    /\ server.pc = "connecting"
    /\ server' = IF ok
                 THEN Returned([server EXCEPT !.pc = "idle", !.connected = TRUE])
                 ELSE Caught(server)
    /\ UNCHANGED <<store, nextId, creator, now, req, res>>

\* .then(() => { startServer(); }): app.listen
startServer ==
    /\ server.first = "fulfilled"
    /\ server' = [server EXCEPT !.first = "started", !.listening = TRUE]
    /\ UNCHANGED <<store, nextId, creator, now, req, res>>

\* a handler runs only in a process that listens, and leaves the process
\* as it is
Serving ==
    /\ server.listening
    /\ UNCHANGED server

-----------------------------------------------------------------------------
(* Handlers *)

\* router.post('/')
Create(u, body, fail) ==
    /\ Serving
    /\ nextId <= MaxTasks
    /\ LET task == NewTask(u, body, nextId, now)
       IN  IF fail \/ ~DocValid(task)
           THEN /\ res' = Response(30, "create", u, BadId, NoBody, 400,
                                   IF fail THEN StoreMsg ELSE ValidationMsg, <<>>)
                /\ UNCHANGED <<store, nextId, creator>>
           ELSE /\ store' = store \cup {task}
                /\ nextId' = nextId + 1
                /\ creator' = [creator EXCEPT ![task.id] = u]
                /\ res' = Response(25, "create", u, task.id, NoBody, 201, "", Some(task))
    /\ UNCHANGED <<now, req>>

\* router.put('/:id'), up to the first await: the ownership lookup
UpdateFind(u, id, updates, fail) ==
    /\ Serving
    /\ BagCardinality(req) < MaxReqs
    /\ IF fail \/ id = BadId
       THEN /\ res' = Response(162, "update", u, id, NoBody, 400,
                               IF fail THEN StoreMsg ELSE CastMsg, <<>>)
            /\ req' = req
       ELSE IF FindOne(store, id, u) = Null
       THEN /\ res' = NotFound(145, "update", u, id)
            /\ req' = req
       ELSE /\ req' = Await(UpdateReq(u, id, updates))
            /\ res' = res
    /\ UNCHANGED <<store, nextId, creator, now>>

\* router.put('/:id'), the second await: findByIdAndUpdate and the response
UpdateMutate(rq, fail) ==
    /\ Serving
    /\ rq.op = "update"
    /\ LET u == rq.caller
           id == rq.id
           updates == rq.updates
       IN  IF fail \/ ~UpdateValid(updates)
           THEN /\ res' = Response(162, "update", u, id, NoBody, 400,
                                   IF fail THEN StoreMsg ELSE ValidationMsg, <<>>)
                /\ store' = store
           ELSE /\ store' = UpdatedStore(store, id, updates)
                /\ res' = Response(157, "update", u, id, NoBody, 200, "",
                                   FindById(store', id))
    /\ req' = Resume(rq)
    /\ UNCHANGED <<nextId, creator, now>>

\* a guard that tells a foreign task from a missing one
DeleteFindLeaky(u, id, fail) ==
    /\ Serving
    /\ BagCardinality(req) < MaxReqs
    /\ IF fail \/ id = BadId
       THEN /\ res' = Response(191, "delete", u, id, NoBody, 500,
                               IF fail THEN StoreMsg ELSE CastMsg, <<>>)
            /\ req' = req
       ELSE IF FindById(store, id) = Null
       THEN /\ res' = NotFound(178, "delete", u, id)
            /\ req' = req
       ELSE IF FindOne(store, id, u) = Null
       THEN /\ res' = Response(178, "delete", u, id, NoBody, 403, "Not authorized", <<>>)
            /\ req' = req
       ELSE /\ req' = Await(DeleteReq(u, id))
            /\ res' = res
    /\ UNCHANGED <<store, nextId, creator, now>>

\* router.delete('/:id'), up to the first await: the ownership lookup
DeleteFind(u, id, fail) ==
    /\ Serving
    /\ BagCardinality(req) < MaxReqs
    /\ IF fail \/ id = BadId
       THEN /\ res' = Response(191, "delete", u, id, NoBody, 500,
                               IF fail THEN StoreMsg ELSE CastMsg, <<>>)
            /\ req' = req
       ELSE IF FindOne(store, id, u) = Null
       THEN /\ res' = NotFound(178, "delete", u, id)
            /\ req' = req
       ELSE /\ req' = Await(DeleteReq(u, id))
            /\ res' = res
    /\ UNCHANGED <<store, nextId, creator, now>>

\* router.delete('/:id'), the second await: findByIdAndDelete and the response
DeleteMutate(rq, fail) ==
    /\ Serving
    /\ rq.op = "delete"
    /\ LET u == rq.caller
           id == rq.id
       IN  IF fail
           THEN /\ res' = Response(191, "delete", u, id, NoBody, 500, StoreMsg, <<>>)
                /\ store' = store
           ELSE /\ store' = DeletedStore(store, id)
                /\ res' = Response(186, "delete", u, id, NoBody, 200,
                                   "Task deleted successfully", <<>>)
    /\ req' = Resume(rq)
    /\ UNCHANGED <<nextId, creator, now>>

\* router.get('/')
List(u, q, fail) ==
    /\ Serving
    /\ IF fail \/ (Truthy(q, "search") /\ ~RegexValid(q.search))
       THEN res' = Response(82, "list", u, BadId, q, 500,
                            IF fail THEN StoreMsg ELSE RegexMsg, <<>>)
       ELSE \E result \in Exec(Find(store, u, q), Get(q, "sortBy", "")) :
                res' = [Response(76, "list", u, BadId, q, 200, "", result)
                            EXCEPT !.count = Len(result)]
    /\ UNCHANGED <<store, nextId, creator, now, req>>

\* router.get('/stats'), up to the first await: the aggregation
StatsAggregate(u, fail) ==
    /\ Serving
    /\ BagCardinality(req) < MaxReqs
    /\ IF fail
       THEN /\ res' = Response(128, "stats", u, BadId, NoBody, 500, StoreMsg, <<>>)
            /\ req' = req
       ELSE /\ req' = Await(StatsReq(u, Aggregate(store, u)))
            /\ res' = res
    /\ UNCHANGED <<store, nextId, creator, now>>

\* a handler without the `|| { total: 0, ... }` fallback: setting overdue on
\* undefined throws
StatsCountNoFallback(rq, fail) ==
    /\ Serving
    /\ rq.op = "stats"
    /\ LET u == rq.caller
           stats == rq.stats
           overdue == CountOverdue(store, u, now)
       IN  IF fail \/ stats = <<>>
           THEN res' = Response(128, "stats", u, BadId, NoBody, 500, StoreMsg, <<>>)
           ELSE res' = Response(123, "stats", u, BadId, NoBody, 200, "",
                                <<[total |-> stats[1].total,
                                   completed |-> stats[1].completed,
                                   pending |-> stats[1].pending,
                                   inProgress |-> stats[1].inProgress,
                                   highPriority |-> stats[1].highPriority,
                                   overdue |-> overdue]>>)
    /\ req' = Resume(rq)
    /\ UNCHANGED <<store, nextId, creator, now>>

\* router.get('/stats'), the second await: the overdue count and the response
StatsCount(rq, fail) ==
    /\ Serving
    /\ rq.op = "stats"
    /\ LET u == rq.caller
           stats == rq.stats
           overdue == CountOverdue(store, u, now)
           result == IF stats # <<>> THEN stats[1] ELSE ZeroRow
       IN  IF fail
           THEN res' = Response(128, "stats", u, BadId, NoBody, 500, StoreMsg, <<>>)
           ELSE res' = Response(123, "stats", u, BadId, NoBody, 200, "",
                                <<[total |-> result.total,
                                   completed |-> result.completed,
                                   pending |-> result.pending,
                                   inProgress |-> result.inProgress,
                                   highPriority |-> result.highPriority,
                                   overdue |-> overdue]>>)
    /\ req' = Resume(rq)
    /\ UNCHANGED <<store, nextId, creator, now>>

\* the wall clock read by new Date()
Tick ==
    /\ now < MaxClock
    /\ now' = now + 1
    /\ UNCHANGED <<store, nextId, creator, req, res, server>>

-----------------------------------------------------------------------------
(* Inputs *)

\* outcomes of a store call: FALSE, the call succeeds
NoFault == {FALSE}

\* the characters of search strings: a letter, the wildcard, an open group
Chars == {"b", ".", "("}

RECURSIVE Texts(_)
Texts(n) ==
    IF n = 0 THEN {<<>>}
    ELSE Texts(n - 1) \cup {Append(t, c) : t \in Texts(n - 1), c \in Chars}

\* request bodies of the ownership scenarios
GuardCreates ==
    {[title |-> <<"a">>, priority |-> "High", status |-> "Pending"],
     [priority |-> "High", status |-> "Pending"]}

GuardUpdates ==
    {[status |-> "Completed"], [status |-> "Done"]}
    \cup {[user |-> v] : v \in Users}

\* queries of the ownership scenarios: no filter, one filter, all parameters
GuardQueries ==
    {NoBody,
     [status |-> "Pending"],
     [status |-> "Completed", priority |-> "High", search |-> <<"a">>,
      sortBy |-> "createdAt"]}

\* request bodies and queries of the listing scenarios
ListCreates ==
    [title : {<<"a", "B">>},
     priority : {"High", "Low"}, status : {"Pending", "Completed"}]
    \cup [title : {<<".">>}, description : {<<"b">>},
          priority : {"High", "Low"}, status : {"Pending", "Completed"}]

\* a parameter given as the empty string is as good as absent
ListQueries ==
    [status : {"", "Completed"}, priority : {"", "High"},
     search : Texts(MaxSearchLen), sortBy : {"", "priority"}]

\* request bodies of the statistics scenarios: A is due at time 0 and open,
\* B is due at time 0 and completed, C has no due date
StatsCreates ==
    {[title |-> <<"a">>, priority |-> "High", status |-> "Pending", dueDate |-> 0],
     [title |-> <<"a">>, priority |-> "Low", status |-> "Completed", dueDate |-> 0],
     [title |-> <<"a">>, priority |-> "Medium", status |-> "In Progress"]}

StatsUpdates == {[status |-> "Completed"], [user |-> "bob"]}

-----------------------------------------------------------------------------
(* Specifications *)

Init ==
    /\ store = {}
    /\ nextId = 1
    /\ creator = [i \in TaskIds |-> NoUser]
    /\ now = 0
    /\ req = EmptyBag
    /\ res = NoResponse
    /\ server = Running

\* Create, Update, Delete and List requests of all users, interleaved
GuardCreate ==
    \E u \in Users, body \in GuardCreates, fail \in NoFault : Create(u, body, fail)
GuardUpdateFind ==
    \E u \in Users, id \in Ids, updates \in GuardUpdates, fail \in NoFault :
        UpdateFind(u, id, updates, fail)
GuardUpdateMutate == \E rq \in InFlight, fail \in NoFault : UpdateMutate(rq, fail)
GuardDeleteFind ==
    \E u \in Users, id \in Ids, fail \in NoFault : DeleteFind(u, id, fail)
GuardDeleteMutate == \E rq \in InFlight, fail \in NoFault : DeleteMutate(rq, fail)
GuardList ==
    \E u \in Users, q \in GuardQueries, fail \in NoFault : List(u, q, fail)

Next ==
    \/ GuardCreate
    \/ GuardUpdateFind
    \/ GuardUpdateMutate
    \/ GuardDeleteFind
    \/ GuardDeleteMutate
    \/ GuardList

Spec == Init /\ [][Next]_vars

\* Create, Update, Delete and Stats requests of all users, interleaved, while
\* the clock advances
StatsCreate ==
    \E u \in Users, body \in StatsCreates, fail \in NoFault : Create(u, body, fail)
StatsUpdateFind ==
    \E u \in Users, id \in TaskIds, updates \in StatsUpdates, fail \in NoFault :
        UpdateFind(u, id, updates, fail)
StatsUpdateMutate == \E rq \in InFlight, fail \in NoFault : UpdateMutate(rq, fail)
StatsDeleteFind ==
    \E u \in Users, id \in TaskIds, fail \in NoFault : DeleteFind(u, id, fail)
StatsDeleteMutate == \E rq \in InFlight, fail \in NoFault : DeleteMutate(rq, fail)
StatsRead == \E u \in Users, fail \in NoFault : StatsAggregate(u, fail)
StatsAnswer == \E rq \in InFlight, fail \in NoFault : StatsCount(rq, fail)

NextStats ==
    \/ StatsCreate
    \/ StatsUpdateFind
    \/ StatsUpdateMutate
    \/ StatsDeleteFind
    \/ StatsDeleteMutate
    \/ StatsRead
    \/ StatsAnswer
    \/ Tick

SpecStats == Init /\ [][NextStats]_vars

\* List requests of all users against the collections that Create requests
\* of the listing scenarios leave behind
InitList ==
    \E k \in 0..MaxTasks :
        \E who \in [1..k -> Users], body \in [1..k -> ListCreates] :
            /\ store = {NewTask(who[i], body[i], i, 0) : i \in 1..k}
            /\ nextId = k + 1
            /\ creator = [i \in TaskIds |-> IF i <= k THEN who[i] ELSE NoUser]
    /\ now = 0
    /\ req = EmptyBag
    /\ res = NoResponse
    /\ server = Running

\* List leaves the collection as it is: one List per collection shows all
\* that any number of them can return
ListOnce ==
    /\ res = NoResponse
    /\ \E u \in Users, q \in ListQueries, fail \in NoFault : List(u, q, fail)

NextList == ListOnce

SpecList == InitList /\ [][NextList]_vars

\* request bodies and queries of the sorting scenarios: each priority, with
\* and without a due date; each sort order, with and without a filter
SortCreates ==
    [title : {<<"a">>}, priority : Priorities, status : {"Pending"}]
    \cup [title : {<<"a">>}, priority : Priorities, status : {"Pending"},
          dueDate : 0..MaxClock]

SortQueries ==
    [priority : {"", "High"},
     sortBy : {"", "dueDate", "-dueDate", "createdAt", "priority"}]

\* List requests of all users against the collections that Create requests
\* of the sorting scenarios leave behind as the clock advances
InitSort ==
    \E k \in 0..MaxTasks :
        \E who \in [1..k -> Users], body \in [1..k -> SortCreates],
           when \in [1..k -> 0..MaxClock] :
            /\ \A i, j \in 1..k : i < j => when[i] <= when[j]
            /\ store = {NewTask(who[i], body[i], i, when[i]) : i \in 1..k}
            /\ nextId = k + 1
            /\ creator = [i \in TaskIds |-> IF i <= k THEN who[i] ELSE NoUser]
            /\ now = IF k = 0 THEN 0 ELSE when[k]
    /\ req = EmptyBag
    /\ res = NoResponse
    /\ server = Running

SortOnce ==
    /\ res = NoResponse
    /\ \E u \in Users, q \in SortQueries, fail \in NoFault : List(u, q, fail)

NextSort == SortOnce

SpecSort == InitSort /\ [][NextSort]_vars

\* the process starts, with and without MONGO_URI, and serves Create, List
\* and Delete requests once it listens; a store call made without a connection is
\* buffered and fails when the buffer times out
StoreFaults == IF server.connected THEN NoFault ELSE {TRUE}

InitBoot ==
    /\ store = {}
    /\ nextId = 1
    /\ creator = [i \in TaskIds |-> NoUser]
    /\ now = 0
    /\ req = EmptyBag
    /\ res = NoResponse
    /\ server \in {Starting(uri) : uri \in BOOLEAN}

BootConnect == \E ok \in BOOLEAN : Connect(ok)
BootCreate ==
    \E u \in Users, body \in GuardCreates, fail \in StoreFaults :
        Create(u, body, fail)
BootList == \E u \in Users, fail \in StoreFaults : List(u, NoBody, fail)
BootDeleteFind ==
    \E u \in Users, id \in TaskIds, fail \in StoreFaults : DeleteFind(u, id, fail)
BootDeleteMutate ==
    \E rq \in InFlight, fail \in StoreFaults : DeleteMutate(rq, fail)

NextBoot ==
    \/ Boot
    \/ Retry
    \/ BootConnect
    \/ startServer
    \/ BootCreate
    \/ BootList
    \/ BootDeleteFind
    \/ BootDeleteMutate

SpecBoot == InitBoot /\ [][NextBoot]_vars

\* outcomes of a store call: it succeeds, or it fails with an error that is
\* not of the request's making (the connection is lost, the call times out)
Faults == BOOLEAN

\* request bodies and queries of the failure scenarios
FaultUpdates == {[status |-> "Completed"], [status |-> "Done"]}

FaultQueries == {NoBody, [search |-> <<"(">>]}

\* requests of every operation by one user, each of whose store calls may
\* fail
FaultCreate ==
    \E body \in GuardCreates, fail \in Faults : Create("alice", body, fail)
FaultUpdateFind ==
    \E id \in Ids, updates \in FaultUpdates, fail \in Faults :
        UpdateFind("alice", id, updates, fail)
FaultUpdateMutate == \E rq \in InFlight, fail \in Faults : UpdateMutate(rq, fail)
FaultDeleteFind == \E id \in Ids, fail \in Faults : DeleteFind("alice", id, fail)
FaultDeleteMutate == \E rq \in InFlight, fail \in Faults : DeleteMutate(rq, fail)
FaultList == \E q \in FaultQueries, fail \in Faults : List("alice", q, fail)
FaultStatsRead == \E fail \in Faults : StatsAggregate("alice", fail)
FaultStatsAnswer == \E rq \in InFlight, fail \in Faults : StatsCount(rq, fail)

NextFault ==
    \/ FaultCreate
    \/ FaultUpdateFind
    \/ FaultUpdateMutate
    \/ FaultDeleteFind
    \/ FaultDeleteMutate
    \/ FaultList
    \/ FaultStatsRead
    \/ FaultStatsAnswer

SpecFault == Init /\ [][NextFault]_vars

-----------------------------------------------------------------------------
(* Ownership *)

\* a step in which the guard of an Update or Delete of task `id` by `u`
\* answered (the request went no further)
GuardAnswered(u, id) ==
    /\ req' = req
    /\ res' # res
    /\ res'.op \in {"update", "delete"}
    /\ res'.caller = u
    /\ res'.id = id

\* a step in which an Update or Delete of task `id` by `u` passed its guard
GuardPassed(u, id) ==
    \E rq \in BagToSet(req') :
        /\ rq.op \in {"update", "delete"}
        /\ rq.caller = u
        /\ rq.id = id
        /\ req' = Await(rq)

\* C1: an Update or Delete of a task by a caller who is not its owner is
\* answered 404 'Task not found', goes no further than the guard and leaves
\* the store as it was
C1_NonOwnerNotFound ==
    [][\A u \in Users : \A d \in store :
          d.user # u =>
              /\ ~GuardPassed(u, d.id)
              /\ GuardAnswered(u, d.id) =>
                     /\ res'.status = 404
                     /\ res'.message = "Task not found"
                     /\ store' = store]_vars

\* a non-owner's Update was refused while the task is in the store
C1_Witness ==
    /\ res.op = "update"
    /\ res.status = 404
    /\ \E d \in store : d.id = res.id /\ d.user # res.caller

\* the documents of a List response
Listed == {res.data[i] : i \in 1..Len(res.data)}

\* C2: a List response holds every task its caller created (when the query
\* has no filter) and no task another user created
C2_ListScopedToCreator ==
    (res.op = "list" /\ res.status = 200) =>
        \A d \in store :
            /\ (creator[d.id] = res.caller /\ DOMAIN res.args = {}) => d \in Listed
            /\ creator[d.id] # res.caller => d \notin Listed

\* C3: every stored task is owned by the user who created it
C3_OwnerImmutable == \A d \in store : d.user = creator[d.id]

\* a step in which the second store call of request rq ran
Mutated(rq) ==
    /\ rq.op \in {"update", "delete"}
    /\ req' = Resume(rq)

\* C4: the second store call of an Update or Delete changes the store only
\* when the caller owns the task at that moment
C4_MutationOwnerFiltered ==
    [][\A rq \in InFlight :
          (Mutated(rq) /\ store' # store) =>
              \A d \in store : d.id = rq.id => d.user = rq.caller]_vars

\* C5: whenever the guard of an Update or Delete refuses a well-formed id,
\* the response is the one NotFound response, whether the task is missing
\* or belongs to someone else, and the store is as it was
C5_UniformNotFound ==
    [][\A u \in Users, id \in TaskIds :
          GuardAnswered(u, id) =>
              /\ res'.status = 404
              /\ res'.message = "Task not found"
              /\ res'.data = <<>>
              /\ store' = store]_vars

\* a Delete of an id that is not in the store was refused while the store
\* holds another user's task
C5_Witness ==
    /\ res.op = "delete"
    /\ res.status = 404
    /\ ~\E d \in store : d.id = res.id
    /\ \E d \in store : d.user # res.caller

-----------------------------------------------------------------------------
(* Statistics *)

\* a step in which the aggregation of a Stats request by u ran and left the
\* request rq waiting for the overdue count
StatsWasRead(rq) ==
    /\ rq.op = "stats"
    /\ req' = Await(rq)

\* a step in which the Stats request rq was answered
StatsAnswered(rq) ==
    /\ rq.op = "stats"
    /\ req' = Resume(rq)

Owned(u) == {d \in store : d.user = u}

\* C6: the aggregation yields, for a user with tasks, one row holding the
\* number of the user's tasks, of those Completed, Pending and In Progress,
\* and of those of priority High; the response carries these numbers
C6_StatsCounts ==
    [][/\ \A rq \in BagToSet(req') :
              (StatsWasRead(rq) /\ Owned(rq.caller) # {}) =>
                  /\ Len(rq.stats) = 1
                  /\ rq.stats[1].total = Cardinality(Owned(rq.caller))
                  /\ rq.stats[1].completed =
                         Cardinality({d \in Owned(rq.caller) : d.status = "Completed"})
                  /\ rq.stats[1].pending =
                         Cardinality({d \in Owned(rq.caller) : d.status = "Pending"})
                  /\ rq.stats[1].inProgress =
                         Cardinality({d \in Owned(rq.caller) : d.status = "In Progress"})
                  /\ rq.stats[1].highPriority =
                         Cardinality({d \in Owned(rq.caller) : d.priority = "High"})
       /\ \A rq \in InFlight :
              (StatsAnswered(rq) /\ rq.stats # <<>>) =>
                  /\ res'.op = "stats"
                  /\ res'.caller = rq.caller
                  /\ res'.status = 200
                  /\ res'.data[1].total = rq.stats[1].total
                  /\ res'.data[1].completed = rq.stats[1].completed
                  /\ res'.data[1].pending = rq.stats[1].pending
                  /\ res'.data[1].inProgress = rq.stats[1].inProgress
                  /\ res'.data[1].highPriority = rq.stats[1].highPriority]_vars

\* a Stats response counting the caller's one task while another user owns
\* a task too
C6_Witness ==
    /\ res.op = "stats"
    /\ res.status = 200
    /\ res.data[1].total = 1
    /\ Cardinality(Owned(res.caller)) = 1
    /\ \E d \in store : d.user # res.caller

\* C7: the overdue member of a Stats response is the number of the caller's
\* tasks that have a due date before the time of the count and are not
\* Completed
C7_StatsOverdue ==
    [][\A rq \in InFlight :
          StatsAnswered(rq) =>
              /\ res'.status = 200
              /\ res'.data[1].overdue =
                     Cardinality({d \in Owned(rq.caller) :
                                     /\ d.dueDate \in 0..(now - 1)
                                     /\ d.status # "Completed"})]_vars

\* A (High, Pending, due in the past) and B (Low, Completed, due in the
\* past) give total 2, highPriority 1, overdue 1
C7_Witness ==
    /\ res.op = "stats"
    /\ res.status = 200
    /\ res.data[1].total = 2
    /\ res.data[1].highPriority = 1
    /\ res.data[1].overdue = 1
    /\ \E a, b \in Owned(res.caller) :
           /\ a.priority = "High" /\ a.status = "Pending" /\ a.dueDate < now
           /\ b.priority = "Low" /\ b.status = "Completed" /\ b.dueDate < now
           /\ b.dueDate # NoDate

\* C8: for a user without tasks the aggregation yields no row, and the
\* response is a success with all six counts zero
C8_StatsEmpty ==
    [][/\ \A rq \in BagToSet(req') :
              (StatsWasRead(rq) /\ Owned(rq.caller) = {}) => rq.stats = <<>>
       /\ \A rq \in InFlight :
              (StatsAnswered(rq) /\ rq.stats = <<>> /\ Owned(rq.caller) = {}) =>
                  /\ res'.op = "stats"
                  /\ res'.status = 200
                  /\ res'.data = <<[total |-> 0, completed |-> 0, pending |-> 0,
                                    inProgress |-> 0, highPriority |-> 0,
                                    overdue |-> 0]>>]_vars

\* a Stats response of all zeros for a user without tasks while another
\* user owns one
C8_Witness ==
    /\ res.op = "stats"
    /\ res.status = 200
    /\ res.data[1].total = 0
    /\ res.data[1].overdue = 0
    /\ Owned(res.caller) = {}
    /\ store # {}

-----------------------------------------------------------------------------
(* Listing *)

\* what a List of u's tasks with the one parameter f of query q returns
Only(q, f) == [g \in {f} |-> q[g]]

\* C9: a successful List returns exactly the caller's tasks that pass every
\* given filter: those with the given status, those with the given
\* priority, those a List with the search alone returns; and its count is
\* the number of tasks returned
C9_FiltersConjunctive ==
    (res.op = "list" /\ res.status = 200) =>
        LET q == res.args
            u == res.caller
            byStatus == IF Truthy(q, "status")
                        THEN {d \in Owned(u) : d.status = q.status}
                        ELSE Owned(u)
            byPriority == IF Truthy(q, "priority")
                          THEN {d \in Owned(u) : d.priority = q.priority}
                          ELSE Owned(u)
            bySearch == Find(store, u, Only(q, "search"))
        IN  /\ Listed = byStatus \cap byPriority \cap bySearch
            /\ Find(store, u, Only(q, "status")) = byStatus
            /\ Find(store, u, Only(q, "priority")) = byPriority
            /\ res.count = Len(res.data)
            /\ Len(res.data) = Cardinality(Listed)

\* a List with status, priority and search given returned one of the
\* caller's two tasks
C9_Witness ==
    /\ res.op = "list"
    /\ res.status = 200
    /\ Truthy(res.args, "status")
    /\ Truthy(res.args, "priority")
    /\ Truthy(res.args, "search")
    /\ res.count = 1
    /\ Cardinality(Owned(res.caller)) = 2

\* s occurs in text as a literal substring, compared case-insensitively
Occurs(s, text) ==
    \E i \in 1..(Len(text) - Len(s) + 1) :
        \A k \in 1..Len(s) : Lower(s[k]) = Lower(text[i + k - 1])

\* C10: a List with a search string succeeds and returns, among the tasks
\* that pass the other filters, exactly those in whose title or description
\* the string occurs literally, compared case-insensitively
C10_SearchLiteral ==
    (res.op = "list" /\ Truthy(res.args, "search")) =>
        /\ res.status = 200
        /\ Listed = {d \in Find(store, res.caller,
                                [res.args EXCEPT !.search = NoText]) :
                        \/ Occurs(res.args.search, d.title)
                        \/ Occurs(res.args.search, d.description)}


-----------------------------------------------------------------------------
(* Failures *)

\* C11: every failure response carries the status of its cause: 400 for a
\* validation failure, 404 for a task that is not found, 500 for a failure
\* of the store that the request did not cause, in every operation
C11_StatusByCause ==
    res.status \notin {0, 200, 201} =>
        /\ (res.message = ValidationMsg => res.status = 400)
        /\ (res.message = "Task not found" => res.status = 404)
        /\ (res.message = StoreMsg => res.status = 500)

-----------------------------------------------------------------------------
(* Sorting *)

\* C12: a List sorted by dueDate returns its tasks with due dates that never
\* decrease (a task without a due date counts as earliest), sorted by
\* -dueDate with due dates that never increase, sorted by createdAt with
\* creation times that never increase; in each case the tasks returned are
\* the tasks that pass the filters, each once
C12_SortedByDate ==
    (res.op = "list" /\ res.status = 200) =>
        LET by == res.args.sortBy
            n == Len(res.data)
        IN  /\ by = "dueDate" =>
                   \A i, j \in 1..n :
                       i < j => res.data[i].dueDate <= res.data[j].dueDate
            /\ by = "-dueDate" =>
                   \A i, j \in 1..n :
                       i < j => res.data[i].dueDate >= res.data[j].dueDate
            /\ by = "createdAt" =>
                   \A i, j \in 1..n :
                       i < j => res.data[i].createdAt >= res.data[j].createdAt
            /\ by \in {"dueDate", "-dueDate", "createdAt"} =>
                   /\ Listed = Find(store, res.caller, res.args)
                   /\ n = Cardinality(Listed)

\* a List sorted by -dueDate returned two tasks, the later due one first,
\* which was created first
C12_Witness ==
    /\ res.op = "list"
    /\ res.status = 200
    /\ res.args.sortBy = "-dueDate"
    /\ Len(res.data) = 2
    /\ res.data[1].dueDate > res.data[2].dueDate
    /\ res.data[1].id < res.data[2].id

\* the place of a priority among the stored values, compared as strings
StringRank(p) == CHOOSE i \in 1..3 : <<"High", "Low", "Medium">>[i] = p

\* C13: a List sorted by priority returns its tasks in ascending order of
\* the stored priority strings (High, Low, Medium), whatever their severity
C13_PriorityByString ==
    (res.op = "list" /\ res.status = 200 /\ res.args.sortBy = "priority") =>
        \A i, j \in 1..Len(res.data) :
            i < j => StringRank(res.data[i].priority)
                         <= StringRank(res.data[j].priority)

\* a List sorted by priority returned a Low task before a Medium one
C13_Witness ==
    /\ res.op = "list"
    /\ res.status = 200
    /\ res.args.sortBy = "priority"
    /\ Len(res.data) = 2
    /\ res.data[1].priority = "Low"
    /\ res.data[2].priority = "Medium"

-----------------------------------------------------------------------------
(* Update *)

\* C14: the second store call of an Update that is answered 200 gives the
\* task with the request's id the payload's value in every field the payload
\* names, keeps its other fields, and keeps every other task; an Update that
\* is refused by its guard or fails leaves the store as it was
C14_UpdateFrame ==
    [][/\ \A rq \in InFlight :
              (Mutated(rq) /\ rq.op = "update") =>
                  IF res'.status = 200
                  THEN /\ {d \in store' : d.id # rq.id}
                              = {d \in store : d.id # rq.id}
                       /\ {d.id : d \in store'} = {d.id : d \in store}
                       /\ Cardinality(store') = Cardinality(store)
                       /\ \A d \in store : \A e \in store' :
                              (d.id = rq.id /\ e.id = rq.id) =>
                                  \A f \in DOMAIN d :
                                      e[f] = IF f \in DOMAIN rq.updates
                                             THEN rq.updates[f]
                                             ELSE d[f]
                  ELSE store' = store
       /\ \A u \in Users, id \in Ids :
              (GuardAnswered(u, id) /\ res'.op = "update") => store' = store]_vars

\* an Update was answered 200 with the task completed and its title kept,
\* beside another task of the caller that is still pending
C14_Witness ==
    /\ res.op = "update"
    /\ res.status = 200
    /\ \E d, e \in store :
           /\ d.id = res.id
           /\ d.status = "Completed"
           /\ d.title = <<"a">>
           /\ e.id # d.id
           /\ e.user = res.caller
           /\ e.status = "Pending"

-----------------------------------------------------------------------------
(* Startup *)

\* C15: the server listens only in a process whose connection to the store
\* has been established
C15_ListenOnlyConnected == server.listening => server.connected

-----------------------------------------------------------------------------
(* Interleavings *)

\* C16: the statistics of a Stats response never count more overdue tasks
\* than tasks
C16_OverdueWithinTotal ==
    (res.op = "stats" /\ res.status = 200) =>
        res.data[1].overdue <= res.data[1].total

\* C17: a Delete is answered with success only by the step that removes the
\* task, so no task is reported deleted twice
C17_OneDeleteSucceeds ==
    [][\A rq \in InFlight :
          (Mutated(rq) /\ rq.op = "delete" /\ res'.status = 200) =>
              /\ \E d \in store : d.id = rq.id
              /\ \A d \in store' : d.id # rq.id]_vars

\* C18: an Update answered 200 carries the task, with the payload applied
\* and as the store holds it after the mutation
C18_UpdateCarriesTask ==
    [][\A rq \in InFlight :
          (Mutated(rq) /\ rq.op = "update" /\ res'.status = 200) =>
              /\ res'.data # Null
              /\ res'.data[1] \in store'
              /\ \A f \in DOMAIN rq.updates : res'.data[1][f] = rq.updates[f]]_vars
====
